---- MODULE Spec2Model ----
(***************************************************************************)
(* git-branch-tree (src/main.go): the branch list and the per-branch       *)
(* commit logs of a repository are stitched into one graph of CommitNode   *)
(* values, the main line is collapsed, and the graph is rendered as a      *)
(* tree.                                                                   *)
(*                                                                         *)
(* Pointers to CommitNode are indices into the sequence `heap`; the nil   *)
(* pointer is 0.  A commit hash is a number >= 1 and the empty hash ""     *)
(* is 0.  Strings that the code slices or trims are sequences of           *)
(* one-character strings.                                                  *)
(***************************************************************************)
EXTENDS Integers, Sequences, FiniteSets, TLC

\* ------------------------------------------------------------------ bounds
\* longest main-line log `git log <main>` returns
MaxMain == 3
\* number of commit hashes that are not on the main line
NumOther == 2
\* longest log `git log <branch>` returns for a non-main branch
MaxLen == 2
\* most non-main branches `git branch` lists
NumBranches == 2

\* ------------------------------------------------------------------ helpers
Range(s) == {s[i] : i \in 1..Len(s)}

\* ------------------------------------------------------------------ strings
Master == <<"m", "a", "s", "t", "e", "r">>
NoName == <<>>

\* strings.LastIndexByte(s, c), 0-based, -1 when c does not occur
LastIndexByte(s, c) ==
    IF \E i \in 1..Len(s) : s[i] = c
    THEN (CHOOSE i \in 1..Len(s) : s[i] = c /\ \A j \in (i + 1)..Len(s) : s[j] # c) - 1
    ELSE -1

\* s[from:], `from` 0-based
SliceFrom(s, from) == SubSeq(s, from + 1, Len(s))

RECURSIVE TrimLeft(_)
TrimLeft(s) == IF s # <<>> /\ Head(s) = " " THEN TrimLeft(Tail(s)) ELSE s

RECURSIVE TrimRight(_)
TrimRight(s) ==
    IF s # <<>> /\ s[Len(s)] = " " THEN TrimRight(SubSeq(s, 1, Len(s) - 1)) ELSE s

\* strings.TrimSpace
TrimSpace(s) == TrimRight(TrimLeft(s))

\* ------------------------------------------------------------------ git
\* What the three git commands of getMainBranchName can answer: whether the
\* command failed, and the lines it printed.
RemoteOutputs == {<<>>, << <<"o">> >>, << <<"o">>, <<"u">> >>}
ConfigOutputs ==
    {<<>>, << <<" ", "d", "e", "v", " ">> >>, << <<"d", "e", "v">>, <<"x">> >>}
SymRefOutputs ==
    {<<>>,
     << <<"r", "/", "o", "/", "t", "r", "u", "n", "k">> >>,
     << <<"t", "r", "u", "n", "k">> >>,
     << <<"r", "/", "o", "/", "a">>, <<"r", "/", "o", "/", "b">> >>}

GitEnvs ==
    [remoteErr : BOOLEAN, remoteLines : RemoteOutputs,
     configErr : BOOLEAN, configLines : ConfigOutputs,
     symRefErr : BOOLEAN, symRefLines : SymRefOutputs]

NoEnv ==
    [remoteErr |-> FALSE, remoteLines |-> <<>>,
     configErr |-> FALSE, configLines |-> <<>>,
     symRefErr |-> FALSE, symRefLines |-> <<>>]

\* the name the remote HEAD symbolic reference gives, mutated: an unusable
\* remote HEAD falls back to the hardcoded name instead of failing
GetMainBranchNameFallsBack(e) ==
    IF e.remoteErr THEN [name |-> NoName, err |-> TRUE]
    ELSE IF Len(e.remoteLines) < 1
    THEN IF e.configErr THEN [name |-> Master, err |-> FALSE]
         ELSE IF Len(e.configLines) # 1 THEN [name |-> Master, err |-> FALSE]
         ELSE [name |-> TrimSpace(e.configLines[1]), err |-> FALSE]
    ELSE IF e.symRefErr THEN [name |-> Master, err |-> FALSE]
    ELSE IF Len(e.symRefLines) # 1 THEN [name |-> Master, err |-> FALSE]
    ELSE [name |-> SliceFrom(e.symRefLines[1], LastIndexByte(e.symRefLines[1], "/") + 1),
          err |-> FALSE]

\* getMainBranchName: (name, err)
GetMainBranchName(e) ==
    IF e.remoteErr THEN [name |-> NoName, err |-> TRUE]
    ELSE IF Len(e.remoteLines) < 1
    THEN IF e.configErr THEN [name |-> Master, err |-> FALSE]
         ELSE IF Len(e.configLines) # 1 THEN [name |-> Master, err |-> FALSE]
         ELSE [name |-> TrimSpace(e.configLines[1]), err |-> FALSE]
    ELSE IF e.symRefErr THEN [name |-> NoName, err |-> TRUE]
    ELSE IF Len(e.symRefLines) # 1 THEN [name |-> NoName, err |-> TRUE]
    ELSE [name |-> SliceFrom(e.symRefLines[1], LastIndexByte(e.symRefLines[1], "/") + 1),
          err |-> FALSE]

\* ------------------------------------------------------------------ data
Digits == <<"1", "2", "3", "4", "5", "6", "7", "8", "9">>
\* the name of the i-th non-main branch
BranchName(i) == <<"b", Digits[i]>>

\* Branch{}: the zero value of type Branch
ZeroBranch == [Name |-> NoName, Current |-> FALSE]

Elided == "..."
Plain == "s"

\* hashes of the main line (newest first: 1, 2, ...) and the other hashes
MainHashes == 1..MaxMain
OtherHashes == (MaxMain + 1)..(MaxMain + NumOther)
Hashes == MainHashes \cup OtherHashes
NoHash == 0
Nil == 0

VARIABLES
    pc,             \* where main() is
    env,            \* what git answers to getMainBranchName
    mainBranchName, \* main: mainBranchName
    branches,       \* main: branches
    mCommits,       \* main: mCommits
    mainBranch,     \* main: mainBranch
    heap,           \* the CommitNode values allocated so far
    cns,            \* main: cns, hash -> pointer (Nil: no entry)
    mNeeded,        \* main: mNeeded, the set of its keys
    cn,             \* main: cn
    lastCn,         \* main: lastCn
    bi,             \* index into branches of the outer loop
    commits,        \* main: commits, the lines of the log the scan has read
    logLen,         \* len(commits): the lines the log of the branch has
    ci,             \* index into commits of the inner loop
    mi,             \* index into mCommits of the main-line loop
    out             \* the calls ToTree made on the treeprint.Tree

vars == <<pc, env, mainBranchName, branches, mCommits, mainBranch, heap, cns,
          mNeeded, cn, lastCn, bi, commits, logLen, ci, mi, out>>

\* main: mMap, the set of its keys
mMap == {mCommits[i].Hash : i \in 1..Len(mCommits)}

\* the subject git prints for a hash: the same in every log that lists it
SubjectOf(h, log) ==
    IF \E i \in 1..Len(log) : log[i].Hash = h
    THEN log[CHOOSE i \in 1..Len(log) : log[i].Hash = h].Subject
    ELSE Plain

\* listCommits: one Commit per line of the log
Commit(h, subject) ==
    [Hash |-> h, Subject |-> subject, Author |-> "a", OnMaster |-> FALSE]

\* &CommitNode{Commit: commit}
NewNode(c) ==
    [Hash |-> c.Hash, Subject |-> c.Subject, Author |-> c.Author,
     OnMaster |-> c.OnMaster, Branches |-> <<>>, Children |-> <<>>]

\* ------------------------------------------------------------------ code
\* `cn, ok = cns[hash]`: ok, mutated so that no entry is ever found
InternedNever(table, h) == FALSE

\* `cn, ok = cns[hash]`: ok
Interned(table, h) == table[h] # Nil

\* the branch scan's two breaks, mutated: only a main-line commit stops it
ScanBreaksOnMainOnly(existed, inMain) == inMain

\* the branch scan's two breaks: `if ok { break }`, then the mMap test
ScanBreaks(existed, inMain) == existed \/ inMain

\* hasChild(node, hash)
hasChild(node, hash) ==
    \E k \in 1..Len(node.Children) : heap[node.Children[k]].Hash = hash

\* the main-line link, mutated: appended instead of prepended
LinkMainLast(children, last) == Append(children, last)

\* append([]*CommitNode{lastCn}, cn.Children...)
LinkMain(children, last) == <<last>> \o children

\* `inNeeded || i == 0`, mutated: only the newest commit is kept
KeepsNewestOnly(inNeeded, i) == i = 0

\* `inNeeded || i == 0`
Keeps(inNeeded, i) == inNeeded \/ i = 0

\* `len(mNeeded) == 0`, mutated: the walk never ends early
WalkBreaksNever(needed) == FALSE

\* `len(mNeeded) == 0`, mutated: the walk ends after its first commit
WalkBreaksAtOnce(needed) == TRUE

\* `len(mNeeded) == 0`
WalkBreaks(needed) == needed = {}

\* ------------------------------------------------------------------ ToTree
\* One entry per call on a treeprint.Tree: the node it is for (Nil for the
\* junction marker), the depth of the tree it is added to, the label and the
\* meta text (the names of the tagged branches, in order).  The label keeps
\* the whole hash where the code prints its first 8 characters, and the
\* colour of the current branch's name is left out.
Entry(p, depth) ==
    [node |-> p, depth |-> depth,
     data |-> IF heap[p].Hash # NoHash
              THEN <<heap[p].Subject, heap[p].Author, heap[p].Hash>>
              ELSE <<heap[p].Subject>>,
     meta |-> [k \in 1..Len(heap[p].Branches) |-> heap[p].Branches[k].Name]]

Junction(depth) == [node |-> Nil, depth |-> depth, data |-> <<"+">>, meta |-> <<>>]

\* the visit ran deeper than there are nodes: it does not return
Overflow == [node |-> -1, depth |-> 0, data |-> <<>>, meta |-> <<>>]

RECURSIVE ToTree(_, _, _)
RECURSIVE ToTreeChildren(_, _, _, _)

\* CommitNode.ToTree on the node p, for a tree at `depth`
ToTree(p, depth, fuel) ==
    IF fuel = 0 THEN <<Overflow>>
    ELSE <<Entry(p, depth)>> \o ToTreeChildren(p, 1, depth, fuel)

\* the loop over cn.Children from its k-th element on
ToTreeChildren(p, k, depth, fuel) ==
    LET n == heap[p]
        rest == ToTreeChildren(p, k + 1, depth, fuel)
    IN  IF k > Len(n.Children) THEN <<>>
        ELSE IF k = 1 /\ (Len(n.Branches) = 0 \/ n.OnMaster)
        THEN ToTree(n.Children[k], depth, fuel - 1) \o rest
        ELSE IF k = Len(n.Children)
        THEN ToTree(n.Children[k], depth + 1, fuel - 1) \o rest
        ELSE <<Junction(depth + 1)>> \o ToTree(n.Children[k], depth + 2, fuel - 1) \o rest

\* ------------------------------------------------------------------ main
\* main() after getMainBranchName returned the hardcoded name
Init ==
    /\ pc = "listBranches"
    /\ env = NoEnv
    /\ mainBranchName = Master
    /\ branches = <<>>
    /\ mCommits = <<>>
    /\ mainBranch = ZeroBranch
    /\ heap = <<>>
    /\ cns = [h \in Hashes |-> Nil]
    /\ mNeeded = {}
    /\ cn = Nil
    /\ lastCn = Nil
    /\ bi = 1
    /\ commits = <<>>
    /\ logLen = 0
    /\ ci = 1
    /\ mi = 1
    /\ out = <<>>

\* main() before getMainBranchName, for every answer of git
InitResolve ==
    /\ pc = "resolve"
    /\ env \in GitEnvs
    /\ mainBranchName = NoName
    /\ branches = <<>>
    /\ mCommits = <<>>
    /\ mainBranch = ZeroBranch
    /\ heap = <<>>
    /\ cns = [h \in Hashes |-> Nil]
    /\ mNeeded = {}
    /\ cn = Nil
    /\ lastCn = Nil
    /\ bi = 1
    /\ commits = <<>>
    /\ logLen = 0
    /\ ci = 1
    /\ mi = 1
    /\ out = <<>>

\* mainBranchName, err := getMainBranchName(); log.Fatal(err)
ResolveMainBranchName ==
    /\ pc = "resolve"
    /\ LET r == GetMainBranchName(env)
       IN  /\ mainBranchName' = r.name
           /\ pc' = IF r.err THEN "fatal" ELSE "listBranches"
    /\ UNCHANGED <<env, branches, mCommits, mainBranch, heap, cns, mNeeded, cn,
                   lastCn, bi, commits, logLen, ci, mi, out>>

\* the branch lists `git branch` can give: the main branch listed first or
\* not at all, then n other branches; the first line is the current branch
BranchLists ==
    {(IF listed THEN <<[Name |-> mainBranchName, Current |-> TRUE]>> ELSE <<>>)
        \o [i \in 1..n |-> [Name |-> BranchName(i), Current |-> (~listed /\ i = 1)]]
     : listed \in BOOLEAN, n \in 0..NumBranches}

\* branches, err := listBranches()
ListBranches ==
    /\ pc = "listBranches"
    /\ \E bs \in BranchLists :
          /\ branches' = bs
          /\ pc' = "listCommits"
    /\ UNCHANGED <<env, mainBranchName, mCommits, mainBranch, heap, cns, mNeeded,
                   cn, lastCn, bi, commits, logLen, ci, mi, out>>

\* listBranches() failed: log.Fatal(err)
ListBranchesFails ==
    /\ pc = "listBranches"
    /\ pc' = "fatal"
    /\ UNCHANGED <<env, mainBranchName, branches, mCommits, mainBranch, heap, cns,
                   mNeeded, cn, lastCn, bi, commits, logLen, ci, mi, out>>

\* the logs `git log <main>` can return: hashes 1..k, at most one of them
\* with the subject "..."
MainLogs ==
    {[i \in 1..k |-> Commit(i, IF i = dotted THEN Elided ELSE Plain)]
     : k \in 0..MaxMain, dotted \in 0..MaxMain}

\* mCommits, err := listCommits(mainBranchName), and the build of mMap
ListMainCommits ==
    /\ pc = "listCommits"
    /\ \E log \in MainLogs :
          /\ mCommits' = log
          /\ pc' = "branches"
    /\ UNCHANGED <<env, mainBranchName, branches, mainBranch, heap, cns, mNeeded,
                   cn, lastCn, bi, commits, logLen, ci, mi, out>>

\* listCommits(mainBranchName) failed: log.Fatal(err)
ListMainCommitsFails ==
    /\ pc = "listCommits"
    /\ pc' = "fatal"
    /\ UNCHANGED <<env, mainBranchName, branches, mCommits, mainBranch, heap, cns,
                   mNeeded, cn, lastCn, bi, commits, logLen, ci, mi, out>>

\* `if branch.Name == mainBranchName { mainBranch = branch; continue }`
SkipMainBranch ==
    /\ pc = "branches"
    /\ bi <= Len(branches)
    /\ branches[bi].Name = mainBranchName
    /\ mainBranch' = branches[bi]
    /\ bi' = bi + 1
    /\ UNCHANGED <<pc, env, mainBranchName, branches, mCommits, heap, cns, mNeeded,
                   cn, lastCn, commits, logLen, ci, mi, out>>

\* `lastCn = nil; commits, err := listCommits(branch.Name)`: the log has n
\* lines; a line's content is drawn when the loop reaches it (ScanCommit)
FetchBranchCommits ==
    /\ pc = "branches"
    /\ bi <= Len(branches)
    /\ branches[bi].Name # mainBranchName
    /\ lastCn' = Nil
    /\ \E n \in 0..MaxLen :
          /\ commits' = <<>>
          /\ ci' = 1
          /\ IF n = 0
             THEN pc' = "branches" /\ bi' = bi + 1 /\ logLen' = 0
             ELSE pc' = "scan" /\ bi' = bi /\ logLen' = n
    /\ UNCHANGED <<env, mainBranchName, branches, mCommits, mainBranch, heap, cns,
                   mNeeded, cn, mi, out>>

\* listCommits(branch.Name) failed: log.Fatal(err)
FetchBranchCommitsFails ==
    /\ pc = "branches"
    /\ bi <= Len(branches)
    /\ branches[bi].Name # mainBranchName
    /\ lastCn' = Nil
    /\ pc' = "fatal"
    /\ UNCHANGED <<env, mainBranchName, branches, mCommits, mainBranch, heap, cns,
                   mNeeded, cn, bi, commits, logLen, ci, mi, out>>

\* The hashes the next line of the log being scanned can hold: one the log
\* has not listed yet.  Hashes off the main line are interchangeable names,
\* so a hash no log has listed so far is the smallest such hash.
NextHashes ==
    {h \in Hashes \ {commits[k].Hash : k \in 1..Len(commits)} :
        (h \in OtherHashes /\ cns[h] = Nil)
            => \A g \in OtherHashes : g < h => cns[g] # Nil}

\* one iteration of `for i, commit := range commits`, on the ci-th line of
\* the log
ScanCommit ==
    /\ pc = "scan"
    /\ \E h \in NextHashes :
       LET commit == Commit(h, SubjectOf(h, mCommits))
           ok == Interned(cns, commit.Hash)
           p == IF ok THEN cns[commit.Hash] ELSE Len(heap) + 1
           heap1 == IF ok THEN heap ELSE Append(heap, NewNode(commit))
           heap2 == IF ci = 1
                    THEN [heap1 EXCEPT ![p].Branches = Append(@, branches[bi])]
                    ELSE heap1
           heap3 == IF lastCn # Nil
                    THEN [heap2 EXCEPT ![p].Children = Append(@, lastCn)]
                    ELSE heap2
           inMain == commit.Hash \in mMap
           stop == ScanBreaks(ok, inMain) \/ ci = logLen
       IN  /\ heap' = heap3
           /\ cns' = [cns EXCEPT ![commit.Hash] = p]
           /\ cn' = p
           /\ lastCn' = p
           /\ mNeeded' = IF ~ok /\ inMain THEN mNeeded \cup {commit.Hash} ELSE mNeeded
           /\ IF stop
              THEN /\ pc' = "branches" /\ bi' = bi + 1
                   /\ commits' = <<>> /\ logLen' = 0 /\ ci' = 1
              ELSE /\ pc' = "scan" /\ bi' = bi
                   /\ commits' = Append(commits, commit) /\ logLen' = logLen
                   /\ ci' = ci + 1
    /\ UNCHANGED <<env, mainBranchName, branches, mCommits, mainBranch, mi, out>>

\* the branch loop is over: `lastCn = nil`, then the main-line loop
BranchesDone ==
    /\ pc = "branches"
    /\ bi > Len(branches)
    /\ lastCn' = Nil
    /\ mi' = 1
    /\ pc' = IF mCommits = <<>> THEN "render" ELSE "mainWalk"
    /\ UNCHANGED <<env, mainBranchName, branches, mCommits, mainBranch, heap, cns,
                   mNeeded, cn, bi, commits, logLen, ci, out>>

\* one iteration of `for i, commit := range mCommits`
MainCommit ==
    /\ pc = "mainWalk"
    /\ LET commit == mCommits[mi]
           ok == Interned(cns, commit.Hash)
           p == IF ok THEN cns[commit.Hash] ELSE Len(heap) + 1
           heap1 == IF ok THEN heap ELSE Append(heap, NewNode(commit))
           heap2 == [heap1 EXCEPT ![p].OnMaster = TRUE]
           heap3 == IF mi = 1
                    THEN [heap2 EXCEPT ![p].Branches = Append(@, mainBranch)]
                    ELSE heap2
           heap4 == IF lastCn # Nil /\ ~hasChild(heap3[p], heap3[lastCn].Hash)
                    THEN [heap3 EXCEPT ![p].Children = LinkMain(@, lastCn)]
                    ELSE heap3
           inNeeded == commit.Hash \in mNeeded
           keep == Keeps(inNeeded, mi - 1)
           elide == ~keep /\ heap4[lastCn].Subject # Elided
           heap5 == IF elide
                    THEN [heap4 EXCEPT ![p].Subject = Elided, ![p].Hash = NoHash]
                    ELSE heap4
           needed1 == mNeeded \ {commit.Hash}
           stop == WalkBreaks(needed1) \/ mi = Len(mCommits)
       IN  /\ heap' = heap5
           /\ cns' = [cns EXCEPT ![commit.Hash] = p]
           /\ cn' = p
           /\ lastCn' = IF keep \/ elide THEN p ELSE lastCn
           /\ mNeeded' = needed1
           /\ IF stop
              THEN pc' = "render" /\ mi' = mi
              ELSE pc' = "mainWalk" /\ mi' = mi + 1
    /\ UNCHANGED <<env, mainBranchName, branches, mCommits, mainBranch, bi, commits, logLen,
                   ci, out>>

\* `cn.ToTree(tree)` and the print of the tree
Render ==
    /\ pc = "render"
    /\ cn # Nil
    /\ out' = ToTree(cn, 0, Len(heap) + 1)
    /\ pc' = "done"
    /\ UNCHANGED <<env, mainBranchName, branches, mCommits, mainBranch, heap, cns,
                   mNeeded, cn, lastCn, bi, commits, logLen, ci, mi>>

\* `cn.ToTree(tree)` with cn == nil: the copy of *cn for the value receiver
\* is a nil pointer dereference, a run-time panic
RenderNil ==
    /\ pc = "render"
    /\ cn = Nil
    /\ pc' = "panic"
    /\ UNCHANGED <<env, mainBranchName, branches, mCommits, mainBranch, heap, cns,
                   mNeeded, cn, lastCn, bi, commits, logLen, ci, mi, out>>

Next ==
    \/ ListBranches
    \/ ListBranchesFails
    \/ ListMainCommits
    \/ ListMainCommitsFails
    \/ SkipMainBranch
    \/ FetchBranchCommits
    \/ FetchBranchCommitsFails
    \/ ScanCommit
    \/ BranchesDone
    \/ MainCommit
    \/ Render
    \/ RenderNil

Spec == Init /\ [][Next]_vars

NextResolve == ResolveMainBranchName

SpecResolve == InitResolve /\ [][NextResolve]_vars

\* ------------------------------------------------------------------ graph
Ptrs == 1..Len(heap)

ChildrenOf(p) == {heap[p].Children[k] : k \in 1..Len(heap[p].Children)}

RECURSIVE ReachFrom(_)
ReachFrom(S) ==
    LET T == S \cup UNION {ChildrenOf(p) : p \in S}
    IN  IF T = S THEN S ELSE ReachFrom(T)

\* the nodes reachable from r by following children links, r included
Reach(r) == ReachFrom({r})

\* how often q occurs in the children list of p
Occurrences(p, q) == Cardinality({k \in 1..Len(heap[p].Children) : heap[p].Children[k] = q})

\* a tag of a scanned (non-main) branch
IsBranchTag(b) == b.Name # mainBranchName /\ b.Name # NoName

\* p is the tip of some non-main branch
IsTip(p) == \E k \in 1..Len(heap[p].Branches) : IsBranchTag(heap[p].Branches[k])

\* p hangs below a commit of the main line
Anchored(p) == \E q \in Ptrs : heap[q].Hash \in mMap /\ p \in Reach(q)

RECURSIVE ChainFrom(_, _)
\* the main-line chain from p: p, then its main-line continuation child, ...
ChainFrom(p, fuel) ==
    IF fuel = 0 THEN <<>>
    ELSE IF heap[p].Children # <<>> /\ heap[heap[p].Children[1]].OnMaster
    THEN <<p>> \o ChainFrom(heap[p].Children[1], fuel - 1)
    ELSE <<p>>

MainChain == ChainFrom(cn, Len(heap))

Finished == pc = "done"
WalkOver == pc \in {"render", "done"} /\ mCommits # <<>>

WasNeeded(j) ==
    LET q == cns[mCommits[j].Hash]
    IN  IsTip(q) \/ \E c \in ChildrenOf(q) : ~heap[c].OnMaster

KeptIndex(j) == j = 1 \/ WasNeeded(j)

\* the maximal runs of commits that are not kept, among the commits walked
RunStarts == {j \in 2..mi : ~KeptIndex(j) /\ KeptIndex(j - 1)}

\* C2: the main-line chain from the root has one node per kept commit and
\* exactly one placeholder (subject "...", empty hash) per maximal run of
\* commits that are not kept, whatever the subjects of the kept commits.
C2_OnePlaceholderPerRun ==
    (Finished /\ mCommits # <<>>) =>
        /\ Len(MainChain) = Cardinality({j \in 1..mi : KeptIndex(j)}) + Cardinality(RunStarts)
        /\ Cardinality({k \in 1..Len(MainChain) : heap[MainChain[k]].Hash = NoHash})
              = Cardinality(RunStarts)

\* ------------------------------------------------------------------ C3
\* C3: the table holds every node under exactly one hash, a hash met again
\* gets the node it has, and the newest main commit, when it is also a
\* branch tip, is one node that carries the branch tags and the main tag.
C3_InterningUnique ==
    /\ \A h \in Hashes : cns[h] # Nil =>
          cns[h] \in Ptrs /\ heap[cns[h]].Hash \in {h, NoHash}
    /\ \A p \in Ptrs : Cardinality({h \in Hashes : cns[h] = p}) = 1
    /\ \A k \in 1..Len(commits) : cns[commits[k].Hash] # Nil
    /\ WalkOver =>
          LET h == mCommits[1].Hash
              p == cns[h]
              tags == heap[p].Branches
          IN  /\ \A j \in 1..mi : cns[mCommits[j].Hash] # Nil
              /\ \A q \in Ptrs : heap[q].Hash = h => q = p
              /\ tags # <<>> /\ tags[Len(tags)] = mainBranch
              /\ \A q \in Ptrs \ {p} : mainBranch \notin Range(heap[q].Branches)
              /\ IsTip(p) => Len(tags) >= 2

\* the newest main commit is also the tip of a branch
C3_Witness ==
    /\ Finished
    /\ mCommits # <<>>
    /\ IsTip(cns[mCommits[1].Hash])
    /\ Len(heap[cns[mCommits[1].Hash]].Branches) >= 2

\* ------------------------------------------------------------------ C4
C4_Step ==
    /\ pc = "mainWalk" =>
          LET h == mCommits[mi].Hash
              left == mNeeded \ {h}
          IN  /\ cn' = cns'[h]
              /\ (pc' = "render") <=> (left = {})
              /\ left = {} =>
                    /\ mi' = mi
                    /\ mi = 1 \/ h \in mNeeded
                    /\ heap'[cn'].Hash = h
                    /\ \A j \in (mi + 1)..Len(mCommits) : cns'[mCommits[j].Hash] = Nil
              /\ left # {} => pc' = "mainWalk" /\ mi' = mi + 1
    /\ (pc = "render" /\ pc' = "done") =>
          /\ out'[1].node = cn
          /\ heap' = heap /\ cns' = cns
          /\ mCommits # <<>> => cn = cns[mCommits[mi].Hash]

\* C4: the walk goes through the main commits newest first and ends right
\* after the commit that empties mNeeded, older commits left untouched; the
\* root rendered is that commit's node: the oldest needed commit, or the
\* newest commit when none was needed.
C4_EarlyTermination == [][C4_Step]_vars

\* the walk ended on a needed commit that is neither the newest nor the oldest
C4_Witness ==
    /\ Finished
    /\ 1 < mi /\ mi < Len(mCommits)
    /\ out[1].node = cns[mCommits[mi].Hash]

\* ------------------------------------------------------------------ C5
\* C5: with an empty main commit list the run ends in an error: it neither
\* renders nor dereferences a root that does not exist.
C5_EmptyMainIsAnError ==
    (mCommits = <<>> /\ pc \notin {"listBranches", "listCommits"}) =>
        pc \notin {"done", "panic"}

\* ------------------------------------------------------------------ C6
\* the remote HEAD symbolic reference names the main branch
RemoteHeadUsable(e) ==
    ~e.remoteErr /\ Len(e.remoteLines) >= 1 /\ ~e.symRefErr /\ Len(e.symRefLines) = 1

\* name is what follows the last "/" of line (all of it when it has none)
IsLastSegment(name, line) ==
    /\ Len(name) <= Len(line)
    /\ name = SubSeq(line, Len(line) - Len(name) + 1, Len(line))
    /\ "/" \notin Range(name)
    /\ Len(name) = Len(line) \/ line[Len(line) - Len(name)] = "/"

\* name is line without the spaces around it
IsTrimmed(name, line) ==
    /\ \E i \in 0..Len(line) :
          /\ name = SubSeq(line, i + 1, i + Len(name))
          /\ \A k \in 1..i : line[k] = " "
          /\ \A m \in (i + Len(name) + 1)..Len(line) : line[m] = " "
    /\ name # <<>> => name[1] # " " /\ name[Len(name)] # " "

\* the name is the configured default branch, else the hardcoded "master"
IsFallbackName(name, e) ==
    IF ~e.configErr /\ Len(e.configLines) = 1
    THEN IsTrimmed(name, e.configLines[1])
    ELSE name = Master

\* C6 as stated: whenever the remote HEAD symbolic reference does not give the
\* name, resolution falls back to the configured default branch and then to
\* "master", and getMainBranchName returns no error.
C6_ResolutionNeverFails ==
    (pc # "resolve" /\ ~RemoteHeadUsable(env)) =>
        pc = "listBranches" /\ IsFallbackName(mainBranchName, env)

\* C6, amended: resolution falls back to the configured default branch and
\* then to "master" only when `git remote` lists no remote; when `git remote`
\* fails, or a remote exists and the lookup of its HEAD fails or does not print
\* exactly one line, getMainBranchName returns an error and the run aborts;
\* otherwise the name is the last path segment of the symbolic reference.
C6_FallbackOnlyWithoutRemote ==
    pc # "resolve" =>
        IF env.remoteErr THEN pc = "fatal"
        ELSE IF Len(env.remoteLines) < 1
        THEN pc = "listBranches" /\ IsFallbackName(mainBranchName, env)
        ELSE IF env.symRefErr \/ Len(env.symRefLines) # 1 THEN pc = "fatal"
        ELSE pc = "listBranches" /\ IsLastSegment(mainBranchName, env.symRefLines[1])

\* a remote exists, the lookup of its HEAD failed, and the run was aborted
C6_Witness ==
    /\ pc = "fatal"
    /\ ~env.remoteErr /\ Len(env.remoteLines) >= 1
    /\ env.symRefErr

\* ------------------------------------------------------------------ C7
C7_Step ==
    /\ pc = "scan" =>
          LET p == cn'
              h == heap'[p].Hash
              existed == cns[h] # Nil
              inMain == h \in mMap
          IN  /\ h \in Hashes /\ cns'[h] = p
              /\ \A g \in Hashes \ {h} : cns'[g] = cns[g]
              /\ existed => p = cns[h] /\ Len(heap') = Len(heap)
              /\ ~existed => p = Len(heap) + 1 /\ Len(heap') = Len(heap) + 1
              /\ (existed \/ inMain) => pc' = "branches" /\ bi' = bi + 1
              /\ (~existed /\ ~inMain /\ ci < logLen) =>
                    pc' = "scan" /\ bi' = bi /\ ci' = ci + 1
              /\ (existed /\ ci = 1) =>
                    heap' = [heap EXCEPT ![p].Branches = Append(@, branches[bi])]
              /\ mNeeded' = IF ~existed /\ inMain THEN mNeeded \cup {h} ELSE mNeeded
    /\ pc \notin {"scan", "mainWalk"} => heap' = heap /\ cns' = cns /\ mNeeded' = mNeeded

\* C7: a branch scan goes through the log newest first and ends right after
\* the first commit whose node existed before or whose hash is on the main
\* line; no node is made for an older commit of the branch (a branch whose
\* first commit is interned makes none and only adds its tag), and a hash
\* enters mNeeded exactly when the scan ends on a new node of a main commit.
C7_ScanStops == [][C7_Step]_vars

\* a branch whose first commit was already interned left only its tag on it
C7_Witness ==
    /\ pc = "branches"
    /\ bi = 3
    /\ \E p \in Ptrs :
          /\ Len(heap[p].Branches) = 2
          /\ heap[p].Branches[2] = branches[2]
          /\ heap[p].Hash \notin mMap

\* ------------------------------------------------------------------ C8
C8_Step ==
    /\ \A p \in 1..Len(heap') :
          heap'[p].Hash = NoHash =>
              /\ heap'[p].Subject = Elided
              /\ heap'[p].Branches = <<>>
              /\ heap'[p].OnMaster
    /\ \A p \in Ptrs :
          (Len(heap[p].Branches) > 0 \/ pc \in {"branches", "scan"}) =>
              heap'[p].Hash = heap[p].Hash /\ heap'[p].Hash # NoHash

C9_ChainLinked ==
    /\ MainChain[Len(MainChain)] = cns[mCommits[1].Hash]
    /\ \A k \in 1..Len(MainChain) : heap[MainChain[k]].OnMaster
    /\ \A k \in 1..(Len(MainChain) - 1) :
          LET kids == heap[MainChain[k]].Children
          IN  /\ kids[1] = MainChain[k + 1]
              /\ \A i \in 2..Len(kids) : kids[i] # kids[1] /\ ~heap[kids[i]].OnMaster

C9_Step ==
    /\ (pc = "mainWalk" /\ mi > 1) =>
          LET h == mCommits[mi].Hash
              before == IF cns[h] # Nil THEN heap[cns[h]].Children ELSE <<>>
          IN  /\ heap'[cn'].Children = <<lastCn>> \o before
              /\ lastCn \notin Range(before)
    /\ (pc = "mainWalk" /\ pc' = "render") => C9_ChainLinked'

\* C9: after the walk every kept or placeholder node of the main line but
\* the newest commit has the kept-or-placeholder node before it as its first
\* child, once, followed by the children that branch scans attached, in the
\* order they were attached.
C9_MainLinkFirst == [][C9_Step]_vars

\* a needed main commit has its main-line continuation before a branch child
C9_Witness ==
    /\ Finished
    /\ Len(heap[cn].Children) >= 2
    /\ heap[heap[cn].Children[1]].OnMaster
    /\ ~heap[heap[cn].Children[2]].OnMaster

\* ------------------------------------------------------------------ C10
\* C10: the nodes reachable from the root form a tree (the root is no child,
\* every other node is once a child of one node), and ToTree returns having
\* made exactly one entry for each of them.
C10_RenderedGraphIsTree ==
    Finished =>
        LET R == Reach(cn)
        IN  /\ \A q \in R : cn \notin ChildrenOf(q)
            /\ \A p \in R \ {cn} :
                  /\ Cardinality({q \in R : p \in ChildrenOf(q)}) = 1
                  /\ \A q \in R : Occurrences(q, p) <= 1
            /\ Overflow \notin Range(out)
            /\ {out[k].node : k \in 1..Len(out)} \ {Nil} = R
            /\ \A p \in R : Cardinality({k \in 1..Len(out) : out[k].node = p}) = 1

\* a side history joins the main line through a junction marker
C10_Witness ==
    /\ Finished
    /\ Cardinality(Reach(cn)) >= 4
    /\ \E k \in 1..Len(out) : out[k].node = Nil

====
